---- MODULE Spec2Model ----
(***************************************************************************)
(* A model of the Theban Mapping Project scraper (theban_scraper.py and   *)
(* its predecessor amduat_scraper.py).                                     *)
(*                                                                         *)
(* Text is modelled character by character: a Python str is a sequence of *)
(* one-character strings, and Chars("...") turns a literal into one.      *)
(* Only ASCII is modelled (str.lower, \w, \s and \d on ASCII input).      *)
(***************************************************************************)
EXTENDS Integers, Sequences, FiniteSets, TLC

VARIABLES
    text_type,         \* ThebanScraper.text_type, the key of the configuration
    pc,                \* position of scrape_all_tombs (or of a function call)
    tomb_urls,         \* the list get_tombs_list returned
    ti,                \* index of the tomb the for loop of line 257 is at
    all_images,        \* section -> insertion-ordered dict url -> (caption, tomb_name)
    cursor,            \* position of the download loops: section and index
    total_downloaded,  \* the counter of line 269
    reported,          \* the number printed by line 306, -1 before
    listing,           \* outcome of the listing request
    results,           \* what each call of extract_funerary_text_images returned
    attempts,          \* each call of download_image: url, path, outcome
    events,            \* the blocking calls of the run, in order
    arg,               \* argument of the function under test
    ret                \* its return value

vars == <<text_type, pc, tomb_urls, ti, all_images, cursor, total_downloaded,
          reported, listing, results, attempts, events, arg, ret>>

-----------------------------------------------------------------------------
(* Values *)

\* F applied to the value of v: v is computed once, however often F uses it
Bind(v, F(_)) == CHOOSE y \in {F(x) : x \in {v}} : TRUE

\* the sequence with the elements f[1], ..., f[n], each computed once
Tuple(f) == f \o <<>>

Range(f) == {f[i] : i \in DOMAIN f}

SetMax(S0) == Bind(S0, LAMBDA S : CHOOSE x \in S : \A y \in S : x >= y)
SetMin(S0) == Bind(S0, LAMBDA S : CHOOSE x \in S : \A y \in S : x <= y)

-----------------------------------------------------------------------------
(* Strings *)

Chars(s) == Tuple([i \in 1..Len(s) |-> SubSeq(s, i, i)])

Empty == <<>>

UpperAlpha == Chars("ABCDEFGHIJKLMNOPQRSTUVWXYZ")
LowerAlpha == Chars("abcdefghijklmnopqrstuvwxyz")
Digits == Chars("0123456789")
UpperChars == Range(UpperAlpha)
LowerChars == Range(LowerAlpha)
Letters == UpperChars \cup LowerChars
SpaceChars == {" ", "\t", "\n", "\r", "\f"}
WordChars == Letters \cup Range(Digits) \cup {"_"}
UnsafeChars == {"<", ">", ":", "\"", "/", "\\", "|", "?", "*"}

\* str.lower() on one character
LowerCh(c) ==
    IF c \in UpperChars
    THEN LowerAlpha[CHOOSE i \in DOMAIN UpperAlpha : UpperAlpha[i] = c]
    ELSE c

\* str.upper() on one character
UpperCh(c) ==
    IF c \in LowerChars
    THEN UpperAlpha[CHOOSE i \in DOMAIN LowerAlpha : LowerAlpha[i] = c]
    ELSE c

\* str.lower()
Lower(s0) == Bind(s0, LAMBDA s : Tuple([i \in 1..Len(s) |-> LowerCh(s[i])]))

\* the character classes of the regular expressions and of str.strip/split
InClass(c, cls) ==
    CASE cls = "space"  -> c \in SpaceChars
      [] cls = "nonspace" -> c \notin SpaceChars
      [] cls = "word"   -> c \in WordChars
      [] cls = "digit"  -> c \in Range(Digits)
      [] cls = "commaspace" -> c \in SpaceChars \cup {","}
      [] cls = "unsafe" -> c \in UnsafeChars
      [] cls = "underscore" -> c = "_"
      [] cls = "notslash" -> c # "/"
      [] cls = "any"    -> c # "\n"
      [] cls = "sentence_end" -> c \in {".", ";", "!", "?", "\n"}

\* sub occurs in s starting at position i
OccursAt(sub, s, i) ==
    /\ i >= 1
    /\ i + Len(sub) - 1 <= Len(s)
    /\ \A j \in 1..Len(sub) : s[i + j - 1] = sub[j]

\* Python's  sub in s
Contains(s0, sub0) ==
    Bind(s0, LAMBDA s : Bind(sub0, LAMBDA sub :
        \E i \in 1..(Len(s) + 1) : OccursAt(sub, s, i)))

\* the positions of s, in order, at which Keep holds
Positions(s, Keep(_)) == SelectSeq(Tuple([i \in 1..Len(s) |-> i]), Keep)

\* re.sub(r'[cls]', rep, s): every character of the class replaced
ReSubEach(s0, cls, rep) ==
    Bind(s0, LAMBDA s :
        Tuple([i \in 1..Len(s) |-> IF InClass(s[i], cls) THEN rep ELSE s[i]]))

\* re.sub(r'[cls]+', rep, s): every maximal run of the class replaced by rep
ReSubRuns(s0, cls, rep) ==
    Bind(s0, LAMBDA s :
      Bind(Positions(s, LAMBDA i : \/ ~InClass(s[i], cls)
                                   \/ i = 1
                                   \/ ~InClass(s[i - 1], cls)),
           LAMBDA idx :
             Tuple([k \in 1..Len(idx) |->
                      IF InClass(s[idx[k]], cls) THEN rep ELSE s[idx[k]]])))

\* str.strip(chars) for a class of characters
Strip(s0, cls) ==
    Bind(s0, LAMBDA s :
      Bind({i \in 1..Len(s) : ~InClass(s[i], cls)}, LAMBDA body :
        IF body = {} THEN Empty ELSE SubSeq(s, SetMin(body), SetMax(body))))

-----------------------------------------------------------------------------
(* ThebanScraper.sanitize_filename *)

max_length == 100

\* lines 90-91: text[:max_length] when the text is longer
Truncated(text0) ==
    Bind(text0, LAMBDA text :
        IF Len(text) > max_length THEN SubSeq(text, 1, max_length) ELSE text)

\* line 89: text.strip('_')
Stripped(text) == Strip(text, "underscore")

\* line 88 without the +: every underscore replaced by itself
CollapsedOnce(text) == ReSubEach(text, "underscore", "_")

\* line 88: re.sub(r'_+', '_', text)
Collapsed(text) == ReSubRuns(text, "underscore", "_")

\* line 86: re.sub(r'[<>:"/\\|?*]', '_', text)
Replaced(text) == ReSubEach(text, "unsafe", "_")

sanitize_filename(text) ==
    Bind(Truncated(Stripped(Collapsed(ReSubRuns(Replaced(text), "space", "_")))),
         LAMBDA t : IF t # Empty THEN t ELSE Chars("unnamed"))

-----------------------------------------------------------------------------
(* Regular expressions (module re), as far as the program's patterns need *)
(* them.  A pattern is a sequence of items:                               *)
(*   [t |-> "lit",  s]          the literal text s                        *)
(*   [t |-> "alt",  ss]         (?:a|b|c), ss the alternatives in order   *)
(*   [t |-> "rep",  cls, min, cap]  [cls]* (min 0) or [cls]+ (min 1),     *)
(*                              greedy; cap: it is the capture group      *)
(*   [t |-> "opt",  items]      (?:...)?, greedy                          *)
(* Matching backtracks as re does: a greedy item gives characters back    *)
(* until the rest of the pattern matches.                                 *)

Lit(s) == [t |-> "lit", s |-> Chars(s)]
Alt(ss) == [t |-> "alt", ss |-> Tuple([i \in 1..Len(ss) |-> Chars(ss[i])])]
Star(cls) == [t |-> "rep", cls |-> cls, min |-> 0, cap |-> FALSE]
Plus(cls) == [t |-> "rep", cls |-> cls, min |-> 1, cap |-> FALSE]
Group(cls) == [t |-> "rep", cls |-> cls, min |-> 1, cap |-> TRUE]
Opt(items) == [t |-> "opt", items |-> items]

NoMatch == [ok |-> FALSE, end |-> 0, cap |-> Empty]

\* the length of the longest run of characters of cls in s from pos on
RunLen(s, pos, cls) ==
    Bind({i \in pos..Len(s) : ~InClass(s[i], cls)}, LAMBDA bad :
        IF bad = {} THEN Len(s) - pos + 1 ELSE SetMin(bad) - pos)

RECURSIVE MatchFrom(_, _, _, _)
\* match items[k..] of a pattern against s at position pos (re's match at a
\* fixed start): whether it matches, the position after it, the group's text
MatchFrom(items, k, s, pos) ==
    IF k > Len(items) THEN [ok |-> TRUE, end |-> pos, cap |-> Empty]
    ELSE Bind(items[k], LAMBDA it :
      CASE it.t = "lit" ->
             IF OccursAt(it.s, s, pos)
             THEN MatchFrom(items, k + 1, s, pos + Len(it.s))
             ELSE NoMatch
        [] it.t = "alt" ->
             Bind({a \in 1..Len(it.ss) :
                     /\ OccursAt(it.ss[a], s, pos)
                     /\ MatchFrom(items, k + 1, s, pos + Len(it.ss[a])).ok},
                  LAMBDA can :
                    IF can = {} THEN NoMatch
                    ELSE MatchFrom(items, k + 1, s, pos + Len(it.ss[SetMin(can)])))
        [] it.t = "rep" ->
             Bind({n \in it.min..RunLen(s, pos, it.cls) :
                     MatchFrom(items, k + 1, s, pos + n).ok},
                  LAMBDA can :
                    IF can = {} THEN NoMatch
                    ELSE Bind(SetMax(can), LAMBDA n :
                         Bind(MatchFrom(items, k + 1, s, pos + n), LAMBDA rest :
                           IF it.cap
                           THEN [rest EXCEPT !.cap = SubSeq(s, pos, pos + n - 1)]
                           ELSE rest)))
        [] it.t = "opt" ->
             Bind(MatchFrom(it.items, 1, s, pos), LAMBDA inner :
               Bind(IF inner.ok THEN MatchFrom(items, k + 1, s, inner.end)
                    ELSE NoMatch,
                    LAMBDA with :
                      IF with.ok THEN with ELSE MatchFrom(items, k + 1, s, pos))))

\* the positions at which the pattern matches
MatchStarts(pattern, s) == {i \in 1..Len(s) : MatchFrom(pattern, 1, s, i).ok}

RECURSIVE FindAllFrom(_, _, _, _)
FindAllFrom(pattern, s, starts, pos) ==
    Bind({i \in starts : i >= pos}, LAMBDA later :
        IF later = {} THEN <<>>
        ELSE Bind(MatchFrom(pattern, 1, s, SetMin(later)), LAMBDA m :
                 <<m.cap>> \o FindAllFrom(pattern, s, starts, m.end)))

\* re.findall(pattern, s) for a pattern with one group: the group's text in
\* every non-overlapping match, left to right
findall(pattern0, s0) ==
    Bind(pattern0, LAMBDA pattern : Bind(s0, LAMBDA s :
        Bind(MatchStarts(pattern, s), LAMBDA starts :
            FindAllFrom(pattern, s, starts, 1))))

\* re.search(pattern, s): the leftmost match, with its start
search(pattern0, s0) ==
    Bind(pattern0, LAMBDA pattern : Bind(s0, LAMBDA s :
        Bind(MatchStarts(pattern, s), LAMBDA starts :
            IF starts = {}
            THEN [ok |-> FALSE, start |-> 0, end |-> 0, cap |-> Empty]
            ELSE Bind(MatchFrom(pattern, 1, s, SetMin(starts)), LAMBDA m :
                   [ok |-> TRUE, start |-> SetMin(starts), end |-> m.end,
                    cap |-> m.cap]))))

-----------------------------------------------------------------------------
(* FUNERARY_TEXT_CONFIGS *)

TextTypes == {"amduat", "caverns"}

OrdinalWords == << "first", "second", "third", "fourth", "fifth", "sixth",
                   "seventh", "eighth", "ninth", "tenth", "eleventh", "twelfth" >>
Numerals == << "1", "2", "3", "4", "5", "6", "7", "8", "9", "10", "11", "12" >>

AmduatFolders ==
    << "prima_ora", "seconda_ora", "terza_ora", "quarta_ora", "quinta_ora",
       "sesta_ora", "settima_ora", "ottava_ora", "nona_ora", "decima_ora",
       "undicesima_ora", "dodicesima_ora" >>
CavernsFolders ==
    << "prima_sezione", "seconda_sezione", "terza_sezione", "quarta_sezione",
       "quinta_sezione", "sesta_sezione" >>

\* config['sections']: the section numbers, and the folder of each
SectionFolders(tt) == IF tt = "amduat" THEN AmduatFolders ELSE CavernsFolders
Sections(tt) == DOMAIN SectionFolders(tt)

\* the keys first..., 1... of a section_mapping with n sections
MappingTo(n) ==
    {<<Chars(OrdinalWords[i]), i>> : i \in 1..n} \cup {<<Chars(Numerals[i]), i>> : i \in 1..n}

AmduatMapping == MappingTo(Len(AmduatFolders))
CavernsMapping == MappingTo(Len(CavernsFolders))

\* config['section_mapping'] as a set of <<key, section>> pairs
section_mapping(tt) == IF tt = "amduat" THEN AmduatMapping ELSE CavernsMapping

InMapping(tt, key0) ==
    Bind(key0, LAMBDA key : \E p \in section_mapping(tt) : p[1] = key)
MappingOf(tt, key0) ==
    Bind(key0, LAMBDA key : (CHOOSE p \in section_mapping(tt) : p[1] = key)[2])

AmduatKeywords == {Chars("amduat"), Chars("imydwat")}
CavernsKeywords == {Chars("caverns"), Chars("book of caverns")}

\* config['keywords']
keywords(tt) == IF tt = "amduat" THEN AmduatKeywords ELSE CavernsKeywords

Unit == <<"section", "part", "division">>
Names == <<"imydwat", "amduat">>
BookOf == Opt(<<Lit("book"), Plus("space"), Lit("of"), Plus("space")>>)
The == Opt(<<Lit("the"), Plus("space")>>)

AmduatPatterns ==
    << << Lit("imydwat"), Star("commaspace"), Group("word"), Plus("space"),
          Lit("hour") >>,
       << Lit("amduat"), Star("commaspace"), Group("word"), Plus("space"),
          Lit("hour") >>,
       << Group("word"), Plus("space"), Lit("hour"), Plus("space"), Lit("of"),
          Plus("space"), The, Alt(Names) >>,
       << Lit("hour"), Plus("space"), Group("digit"), Star("commaspace"),
          Alt(Names) >> >>

CavernsPatterns ==
    << << BookOf, Lit("caverns"), Star("commaspace"), Group("word"), Plus("space"),
          Alt(Unit) >>,
       << Group("word"), Plus("space"), Alt(Unit), Plus("space"), Lit("of"),
          Plus("space"), The, BookOf, Lit("caverns") >>,
       << Alt(Unit), Plus("space"), Group("digit"), Star("commaspace"), BookOf,
          Lit("caverns") >> >>

\* config['patterns'], in order
patterns(tt) == IF tt = "amduat" THEN AmduatPatterns ELSE CavernsPatterns

-----------------------------------------------------------------------------
(* The parsed page (BeautifulSoup), as far as the program reads it.       *)
(* A page is [title, h1, elems]; an element of elems is a tag             *)
(*   [isTag |-> TRUE, tag, src, data_src, alt, title, anc]                *)
(* where an absent attribute is the empty string and anc lists the tag's  *)
(* ancestors, nearest first, each as the text nodes below it in document  *)
(* order.  The dict that line 146 appends has isTag = FALSE.              *)

RECURSIVE Concat(_)
\* ''.join(pieces)
Concat(pieces) ==
    IF pieces = <<>> THEN <<>> ELSE Head(pieces) \o Concat(Tail(pieces))

\* Tag.get_text(): the text nodes joined
get_text(pieces) == Concat(pieces)

\* Tag.get_text(strip=True): every text node stripped, the empty ones dropped
get_text_strip(pieces0) ==
    Bind(pieces0, LAMBDA pieces :
        Concat(Tuple([i \in 1..Len(pieces) |-> Strip(pieces[i], "space")])))

\* line 146: {'src': src}
SrcDict(src) ==
    [isTag |-> FALSE, tag |-> "dict", src |-> src, data_src |-> Empty,
     alt |-> Empty, title |-> Empty, anc |-> <<>>]

\* lines 141-146: the img tags, then one dict per element with a data-src
ImagesOf(elems0) ==
    Bind(elems0, LAMBDA elems :
      Bind(SelectSeq(elems, LAMBDA e : e.data_src # Empty), LAMBDA lazy :
        SelectSeq(elems, LAMBDA e : e.tag = "img")
            \o Tuple([i \in 1..Len(lazy) |-> SrcDict(lazy[i].data_src)])))

base_url == Chars("https://thebanmappingproject.com")

DenyList == {Chars("logo"), Chars("icon"), Chars("compass"), Chars("hieroglyph")}

\* line 153 without lower()
DeniedCaseSensitive(img_src) == \E skip \in DenyList : Contains(img_src, skip)

\* line 153: any(skip in img_src.lower() for skip in [...])
Denied(img_src) ==
    Bind(Lower(img_src), LAMBDA low : \E skip \in DenyList : Contains(low, skip))

\* lines 156-159: a /styles/<variant>/public/<rest> source becomes
\* /sites/default/files/<rest>
StylesPattern ==
    << Lit("/styles/"), Plus("notslash"), Lit("/public/"), Group("any") >>
StylesMark == Chars("/styles/")
FilesDir == Chars("/sites/default/files/")

Normalized(img_src0) ==
    Bind(img_src0, LAMBDA img_src :
      IF Contains(img_src, StylesMark)
      THEN Bind(search(StylesPattern, img_src), LAMBDA m :
             IF m.ok THEN FilesDir \o m.cap ELSE img_src)
      ELSE img_src)

Http == Chars("http://")
Https == Chars("https://")
Slash == Chars("/")

\* urljoin(base_url, src) for the sources the model draws: an absolute URL is
\* kept, a path is put under the site, with a slash when it has none
urljoin(base, src0) ==
    Bind(src0, LAMBDA src :
      IF OccursAt(Http, src, 1) \/ OccursAt(Https, src, 1) THEN src
      ELSE IF OccursAt(Slash, src, 1) THEN base \o src
      ELSE base \o Slash \o src)

\* line 170: up to 3 levels up
Levels(img) == IF Len(img.anc) < 3 THEN Len(img.anc) ELSE 3

RECURSIVE ContextFrom(_, _)
ContextFrom(img, k) ==
    IF k > Levels(img) THEN <<>>
    ELSE Chars(" ") \o Lower(get_text(img.anc[k])) \o ContextFrom(img, k + 1)

\* lines 163-173: alt, lowercased, then the text of up to 3 ancestors
img_context(img) == Lower(img.alt) \o ContextFrom(img, 1)

\* lines 169-175: the stripped text of the closest of those ancestors that has any
context_text(img) ==
    Bind(Tuple([k \in 1..Levels(img) |-> get_text_strip(img.anc[k])]), LAMBDA texts :
      Bind({k \in 1..Len(texts) : texts[k] # Empty}, LAMBDA has :
        IF has = {} THEN Empty ELSE texts[SetMin(has)]))

\* lines 181-185 looking at the first match only
FirstKeyOfFirstMatch(tt, matches) ==
    IF matches # <<>> /\ InMapping(tt, Lower(matches[1])) THEN 1 ELSE 0

\* lines 183-185: the index of the first captured value that is a key of the
\* mapping, or 0
FirstKey(tt, matches0) ==
    Bind(matches0, LAMBDA matches :
      Bind({j \in 1..Len(matches) : InMapping(tt, Lower(matches[j]))}, LAMBDA hit :
        IF hit = {} THEN 0 ELSE SetMin(hit)))

RECURSIVE SectionFrom(_, _, _)
\* lines 179-203: the patterns in order, from pattern p on; 0 is None
SectionFrom(tt, ctx, p) ==
    IF p > Len(patterns(tt)) THEN 0
    ELSE Bind(findall(patterns(tt)[p], ctx), LAMBDA matches :
           Bind(FirstKey(tt, matches), LAMBDA j :
             IF j # 0 THEN MappingOf(tt, Lower(matches[j]))
             ELSE SectionFrom(tt, ctx, p + 1)))

section_found(tt, ctx0) == Bind(ctx0, LAMBDA ctx : SectionFrom(tt, ctx, 1))

\* re.split(r'[cls]', s)
Split(s0, cls) ==
    Bind(s0, LAMBDA s :
      Bind(Positions(s, LAMBDA i : InClass(s[i], cls)), LAMBDA d :
        Tuple([k \in 1..(Len(d) + 1) |->
                 SubSeq(s, IF k = 1 THEN 1 ELSE d[k - 1] + 1,
                           IF k = Len(d) + 1 THEN Len(s) ELSE d[k] - 1)])))

\* str.split()
Words(s0) ==
    Bind(s0, LAMBDA s :
      Bind(Positions(s, LAMBDA i : /\ InClass(s[i], "nonspace")
                                   /\ (i = 1 \/ InClass(s[i - 1], "space"))),
           LAMBDA b :
             Tuple([k \in 1..Len(b) |->
                      SubSeq(s, b[k], b[k] + RunLen(s, b[k], "nonspace") - 1)])))

RECURSIVE JoinSpace(_)
\* ' '.join(words)
JoinSpace(words) ==
    IF words = <<>> THEN <<>>
    ELSE IF Len(words) = 1 THEN words[1]
    ELSE words[1] \o Chars(" ") \o JoinSpace(Tail(words))

\* any(keyword in s.lower() for keyword in keywords)
HasKeyword(tt, s) ==
    Bind(Lower(s), LAMBDA low : \E kw \in keywords(tt) : Contains(low, kw))

\* lines 194-200: 5 words before the first keyword-bearing word to 9 after
WordWindow(tt, text) ==
    Bind(Words(text), LAMBDA words :
      Bind({i \in 1..Len(words) : HasKeyword(tt, words[i])}, LAMBDA hit :
        IF hit = {} THEN Empty
        ELSE Bind(SetMin(hit), LAMBDA i :
               JoinSpace(SubSeq(words, IF i - 5 < 1 THEN 1 ELSE i - 5,
                                IF i + 9 > Len(words) THEN Len(words) ELSE i + 9)))))

\* lines 187-191: the first sentence with a keyword, stripped
FirstSentence(tt, text) ==
    Bind(Split(text, "sentence_end"), LAMBDA sentences :
      Bind({i \in 1..Len(sentences) : HasKeyword(tt, sentences[i])}, LAMBDA hit :
        IF hit = {} THEN Empty ELSE Strip(sentences[SetMin(hit)], "space")))

\* lines 187-200: the first sentence with a keyword, else the word window
matching_text(tt, text0) ==
    Bind(text0, LAMBDA text :
      Bind(FirstSentence(tt, text), LAMBDA found :
        IF found # Empty THEN found ELSE WordWindow(tt, text)))

\* line 210
CaptionOf(tt, img) ==
    Bind(matching_text(tt, context_text(img)), LAMBDA m :
      IF m # Empty THEN m ELSE IF img.alt # Empty THEN img.alt ELSE img.title)

-----------------------------------------------------------------------------
(* ThebanScraper.extract_tomb_name *)

\* str.title(): a letter is upper case after a non-letter, lower case otherwise
TitleCase(s0) ==
    Bind(s0, LAMBDA s :
      Tuple([i \in 1..Len(s) |->
               IF i = 1 \/ s[i - 1] \notin Letters THEN UpperCh(s[i])
               ELSE LowerCh(s[i])]))

\* str.replace(a, b) for single characters
ReplaceCh(s0, a, b) ==
    Bind(s0, LAMBDA s : Tuple([i \in 1..Len(s) |-> IF s[i] = a THEN b ELSE s[i]]))

SuffixPattern ==
    << Star("space"), Lit("-"), Star("space"), Lit("theban mapping project"),
       Star("any") >>

\* line 101: re.sub(r'\s*-\s*Theban Mapping Project.*', '', title, re.IGNORECASE)
\* for a title of one line
WithoutSuffix(title0) ==
    Bind(title0, LAMBDA title :
      Bind(search(SuffixPattern, Lower(title)), LAMBDA m :
        IF m.ok
        THEN SubSeq(title, 1, m.start - 1) \o SubSeq(title, m.end, Len(title))
        ELSE title))

SlugPattern == << Lit("/tombs/"), Group("notslash") >>
NotNames == {Chars("home"), Chars("theban mapping project")}
UnknownTomb == Chars("Unknown_Tomb")

extract_tomb_name(page, tomb_url) ==
    Bind(WithoutSuffix(Strip(page.title, "space")), LAMBDA title :
      IF title # Empty /\ Lower(title) \notin NotNames THEN title
      ELSE Bind(Strip(page.h1, "space"), LAMBDA h1_text :
        IF h1_text # Empty THEN h1_text
        ELSE Bind(search(SlugPattern, tomb_url), LAMBDA m :
          IF m.ok THEN TitleCase(ReplaceCh(m.cap, "-", " ")) ELSE UnknownTomb)))

-----------------------------------------------------------------------------
(* ThebanScraper.extract_funerary_text_images *)

EmptySections(tt) == [n \in Sections(tt) |-> <<>>]

\* line 207 finding nothing
img_exists_never(found, img_url) == FALSE

\* line 207: any(url == img_url for url, _, _ in images_by_section[section])
img_exists(found, img_url) == \E i \in 1..Len(found) : found[i].url = img_url

\* lines 161-211 for a tag that passed the filters: the new images_by_section
Emit(tt, img, tomb_name, acc) ==
    Bind(section_found(tt, img_context(img)), LAMBDA sec :
      Bind(urljoin(base_url, Normalized(IF img.src # Empty THEN img.src
                                        ELSE img.data_src)),
           LAMBDA img_url :
             IF sec # 0 /\ sec \in Sections(tt) /\ ~img_exists(acc[sec], img_url)
             THEN [acc EXCEPT ![sec] =
                     Append(acc[sec], [url |-> img_url, caption |-> CaptionOf(tt, img),
                                       tomb_name |-> tomb_name])]
             ELSE acc))

\* lines 149-214 for one image: the new images_by_section, or the
\* AttributeError of line 168 for the dict of line 146, which has no parent
ClassifyOne(tt, img, tomb_name, acc) ==
    Bind(IF img.src # Empty THEN img.src ELSE img.data_src, LAMBDA img_src :
      IF img_src = Empty \/ Denied(img_src)
      THEN [raised |-> FALSE, by_section |-> acc]
      ELSE IF ~img.isTag
      THEN [raised |-> TRUE, by_section |-> acc]
      ELSE [raised |-> FALSE, by_section |-> Emit(tt, img, tomb_name, acc)])

RECURSIVE ClassifyFrom(_, _, _, _, _)
\* the loop of line 148 from image k on
ClassifyFrom(tt, images, k, tomb_name, acc) ==
    IF k > Len(images) THEN [raised |-> FALSE, by_section |-> acc]
    ELSE Bind(images[k], LAMBDA img :
           Bind(ClassifyOne(tt, img, tomb_name, acc), LAMBDA one :
             IF one.raised THEN one
             ELSE Bind(one.by_section, LAMBDA next :
                    ClassifyFrom(tt, images, k + 1, tomb_name, next))))

\* the classifier on a parsed page (lines 131-216)
ClassifyPage(tt, page0, tomb_url0) ==
    Bind(page0, LAMBDA page : Bind(tomb_url0, LAMBDA tomb_url :
      Bind(ImagesOf(page.elems), LAMBDA images :
        Bind(extract_tomb_name(page, tomb_url), LAMBDA tomb_name :
          Bind(EmptySections(tt), LAMBDA none :
            ClassifyFrom(tt, images, 1, tomb_name, none))))))

HttpOk == 200

\* a response is [error, status, body]: error is a transport error raised by
\* session.get; body is the parsed page
extract_funerary_text_images(tt, response0, tomb_url) ==
    Bind(response0, LAMBDA response :
      IF response.error THEN [raised |-> TRUE, by_section |-> EmptySections(tt)]
      ELSE IF response.status # HttpOk
      THEN [raised |-> FALSE, by_section |-> EmptySections(tt)]
      ELSE ClassifyPage(tt, response.body, tomb_url))

-----------------------------------------------------------------------------
(* ThebanScraper.get_tombs_list *)

TombPattern == << Lit("/tombs/kv-"), Plus("digit") >>

RECURSIVE TombsFrom(_, _, _)
\* lines 77-80: the matching links, resolved, each once, in order
TombsFrom(links, k, acc) ==
    IF k > Len(links) THEN acc
    ELSE Bind(links[k], LAMBDA href :
           Bind(urljoin(base_url, href), LAMBDA tomb_url :
             IF search(TombPattern, href).ok /\ tomb_url \notin Range(acc)
             THEN Bind(Append(acc, tomb_url), LAMBDA next :
                    TombsFrom(links, k + 1, next))
             ELSE TombsFrom(links, k + 1, acc)))

\* lines 71-81 without the test of line 75
get_tombs_list_any_status(response) == TombsFrom(response.body, 1, <<>>)

\* the response's body is the list of the hrefs of the page's links
get_tombs_list(response0) ==
    Bind(response0, LAMBDA response :
      IF response.status = HttpOk
      THEN Bind(response.body, LAMBDA links : TombsFrom(links, 1, <<>>))
      ELSE <<>>)

-----------------------------------------------------------------------------
(* ThebanScraper.download_image and the file name of lines 279-298 *)

\* lines 218-229 without the test of line 221
download_image_any_status(outcome) == outcome \in {"ok", "status"}

\* download_image for the outcome of its request: "ok" (status 200, file
\* written), "status" (another status), "transport" (session.get raises),
\* "write" (open or write raises).  Line 227 catches both exceptions.
download_image(outcome) ==
    IF outcome = "transport" THEN FALSE
    ELSE IF outcome = "status" THEN FALSE
    ELSE IF outcome = "write" THEN FALSE
    ELSE TRUE

RECURSIVE Decimal(_)
\* str(n) for n >= 0
Decimal(n) ==
    IF n < 10 THEN <<Digits[n + 1]>> ELSE Decimal(n \div 10) \o <<Digits[(n % 10) + 1]>>

\* os.path.basename(path): what follows the last slash
basename(path0) ==
    Bind(path0, LAMBDA path :
      Bind({i \in 1..Len(path) : path[i] = "/"}, LAMBDA slashes :
        IF slashes = {} THEN path ELSE SubSeq(path, SetMax(slashes) + 1, Len(path))))

\* s.split('?')[0]
BeforeQuery(s0) ==
    Bind(s0, LAMBDA s :
      Bind({i \in 1..Len(s) : s[i] = "?"}, LAMBDA q :
        IF q = {} THEN s ELSE SubSeq(s, 1, SetMin(q) - 1)))

\* os.path.splitext(name)[1]: from the last dot, unless only dots precede it
splitext(name0) ==
    Bind(name0, LAMBDA name :
      Bind({i \in 1..Len(name) : name[i] = "."}, LAMBDA dots :
        IF dots = {} \/ \A i \in 1..(SetMax(dots) - 1) : name[i] = "." THEN Empty
        ELSE SubSeq(name, SetMax(dots), Len(name))))

KvPattern == << Lit("/kv-"), Group("digit") >>
Kv == Chars("kv")
Underscore == Chars("_")
Jpg == Chars(".jpg")
ImageInfix == Chars("_image_")

\* lines 279-280
TombIdPrefix(img_url) ==
    Bind(search(KvPattern, img_url), LAMBDA tomb_id :
      IF tomb_id.ok THEN Kv \o tomb_id.cap \o Underscore ELSE Empty)

\* line 283
Extension(base_filename) ==
    Bind(splitext(base_filename), LAMBDA ext : IF ext # Empty THEN ext ELSE Jpg)

\* lines 279-296
FileName(img_url, caption, tomb_name, idx) ==
    Bind(TombIdPrefix(img_url) \o sanitize_filename(tomb_name), LAMBDA stem :
      Bind(BeforeQuery(basename(img_url)), LAMBDA base_filename :
        IF caption # Empty
        THEN stem \o Underscore \o sanitize_filename(caption) \o Extension(base_filename)
        ELSE IF base_filename # Empty
        THEN stem \o Underscore \o base_filename
        ELSE stem \o ImageInfix \o Decimal(idx) \o Extension(base_filename)))

\* lines 275 and 298: os.path.join(base_dir, section folder, filename)
FilePath(tt, section, filename) ==
    Chars(tt) \o Slash \o Chars(SectionFolders(tt)[section]) \o Slash \o filename

-----------------------------------------------------------------------------
(* ThebanScraper.scrape_all_tombs: the run-wide bucket *)

RECURSIVE MergeListLastWins(_, _, _)
\* lines 261-263 without the test of line 262: dict[url] = (caption, tomb)
MergeListLastWins(dict, img_data, k) ==
    IF k > Len(img_data) THEN dict
    ELSE IF \E i \in 1..Len(dict) : dict[i].url = img_data[k].url
         THEN MergeListLastWins(
                  Tuple([i \in 1..Len(dict) |->
                           IF dict[i].url = img_data[k].url THEN img_data[k] ELSE dict[i]]),
                  img_data, k + 1)
         ELSE MergeListLastWins(Append(dict, img_data[k]), img_data, k + 1)

RECURSIVE MergeList(_, _, _)
\* lines 261-263 for one section: a URL not yet in the dict is inserted
MergeList(dict, img_data, k) ==
    IF k > Len(img_data) THEN dict
    ELSE IF \E i \in 1..Len(dict) : dict[i].url = img_data[k].url
         THEN MergeList(dict, img_data, k + 1)
         ELSE Bind(Append(dict, img_data[k]), LAMBDA next :
                MergeList(next, img_data, k + 1))

\* lines 260-263
Merge(all0, images_by_section0) ==
    Bind(all0, LAMBDA all : Bind(images_by_section0, LAMBDA images_by_section :
      [n \in DOMAIN all |-> MergeList(all[n], images_by_section[n], 1)]))

\* lines 271-278: the sections with images, in order, and the images of each
NonEmpty(all) == {n \in DOMAIN all : all[n] # <<>>}

NoCursor == [sec |-> 0, idx |-> 0]

FirstCursor(all) ==
    Bind(NonEmpty(all), LAMBDA some :
      IF some = {} THEN NoCursor ELSE [sec |-> SetMin(some), idx |-> 1])

NextCursor(all, c) ==
    IF c.idx < Len(all[c.sec]) THEN [sec |-> c.sec, idx |-> c.idx + 1]
    ELSE Bind({n \in NonEmpty(all) : n > c.sec}, LAMBDA later :
           IF later = {} THEN NoCursor ELSE [sec |-> SetMin(later), idx |-> 1])

\* where the run goes once a cursor is computed
PcAt(c) == IF c.sec = 0 THEN "summary" ELSE "image"

-----------------------------------------------------------------------------
(* The site: what the requests of a run can return *)

MaxLinks == 2

Texts(pieces) == Tuple([j \in 1..Len(pieces) |-> Chars(pieces[j])])

Tag(tag, src, data_src, alt, anc) ==
    [isTag |-> TRUE, tag |-> tag, src |-> Chars(src), data_src |-> Chars(data_src),
     alt |-> Chars(alt), title |-> Empty,
     anc |-> Tuple([k \in 1..Len(anc) |-> Texts(anc[k])])]

Bare == << <<>>, <<>>, <<>> >>
Para == << <<"Amduat, Fourth hour; Caverns, Second part">>,
           <<"Amduat, Fourth hour; Caverns, Second part">>,
           <<"Amduat, Fourth hour; Caverns, Second part">> >>
Nested == << <<" ">>,
             <<"Hour 3, Amduat ", " ", "second hour of the Imydwat">>,
             <<"Hour 3, Amduat ", " ", "second hour of the Imydwat">> >>

\* tomb pages: figures in empty wrappers, thumbnails of the same file, site
\* chrome, lazily loaded images, images no section is named near
Pages ==
    << [title |-> Chars("KV 9 - Theban Mapping Project"), h1 |-> Empty,
        elems |-> << Tag("img", "/sites/default/files/kv-9/fig1.jpg", "",
                         "Imydwat, fourth hour guardians", Bare),
                     Tag("img", "/styles/thumb/public/kv-9/fig1.jpg", "", "", Para),
                     Tag("img", "/img/Compass-Icon.png", "", "Amduat, third hour",
                         Bare) >>],
       [title |-> Chars("Home"), h1 |-> Chars(" KV 17 "),
        elems |-> << Tag("img", "/sites/default/files/kv-17/b.jpg", "", "", Nested),
                     Tag("img", "/sites/default/files/kv-9/fig1.jpg", "",
                         "Fourth hour of the Amduat; third part of caverns", Bare) >>],
       [title |-> Empty, h1 |-> Empty,
        elems |-> << Tag("div", "", "/sites/default/files/kv-62/lazy.jpg", "",
                         << <<"Amduat, first hour">> >>) >>],
       [title |-> Chars("Theban Mapping Project"), h1 |-> Empty,
        elems |-> << Tag("img", "/sites/default/files/kv-62/room.jpg", "",
                         "Burial chamber", << <<"General view">> >>),
                     Tag("img", "", "/theme/LOGO.svg", "Imydwat, fifth hour", Bare) >>],
       [title |-> Chars("KV 9 - Theban Mapping Project"), h1 |-> Empty,
        elems |-> << Tag("img", "/sites/default/files/kv-9/fig2.jpg", "", "", Para),
                     Tag("img", "/styles/thumb/public/kv-9/fig1.jpg", "", "", Para) >>]
    >>

\* links of the listing page: tombs, one of them also by its absolute URL,
\* and a page that is no tomb
Hrefs == {Chars("/tombs/kv-9"), Chars("https://thebanmappingproject.com/tombs/kv-9"),
          Chars("/tombs/kv-17"), Chars("/tombs/kv-62"), Chars("/about")}

Statuses == {200, 404}

LinkLists == UNION {[1..n -> Hrefs] : n \in 0..MaxLinks}

TransportError == [error |-> TRUE, status |-> 0, body |-> <<>>]

ListingResponses ==
    {[error |-> FALSE, status |-> st, body |-> links] :
        st \in Statuses, links \in LinkLists} \cup {TransportError}

TombResponses ==
    {[error |-> FALSE, status |-> st, body |-> Pages[p]] :
        st \in Statuses, p \in DOMAIN Pages} \cup {TransportError}

DownloadOutcomes == {"ok", "status", "transport", "write"}

\* how a request ended, for the record of the run
OutcomeOf(response) ==
    IF response.error THEN "transport"
    ELSE IF response.status = HttpOk THEN "ok" ELSE "status"

PageIndex(response) ==
    IF response.error \/ response.status # HttpOk THEN 0
    ELSE CHOOSE p \in DOMAIN Pages : Pages[p] = response.body

-----------------------------------------------------------------------------
(* scrape_all_tombs, one blocking call per step *)

Idle == arg = <<>> /\ ret = <<>>

Init ==
    /\ text_type \in TextTypes
    /\ pc = "start"
    /\ tomb_urls = <<>>
    /\ ti = 0
    /\ all_images = EmptySections(text_type)
    /\ cursor = NoCursor
    /\ total_downloaded = 0
    /\ reported = -1
    /\ listing = "none"
    /\ results = <<>>
    /\ attempts = <<>>
    /\ events = <<>>
    /\ Idle

Event(kind, outcome) == [kind |-> kind, outcome |-> outcome]

\* the request the run made last
LastEvent == events[Len(events)]

\* time.sleep called only after a request that succeeded
time_sleep_if_ok(kind, after) == IF after = "ok" THEN <<Event(kind, "ok")>> ELSE <<>>

\* time.sleep of lines 266 and 304, after a request that ended with the
\* outcome `after`: the calls are unconditional
time_sleep(kind, after) == <<Event(kind, "ok")>>

\* lines 246-255: the folders, the listing request, the empty bucket
GetTombsList ==
    /\ pc = "start"
    /\ \E response \in ListingResponses :
         /\ listing' = OutcomeOf(response)
         /\ events' = Append(events, Event("listing", OutcomeOf(response)))
         /\ IF response.error
            THEN /\ pc' = "crashed"
                 /\ UNCHANGED <<tomb_urls, ti, cursor>>
            ELSE /\ tomb_urls' = get_tombs_list(response)
                 /\ ti' = 1
                 /\ cursor' = FirstCursor(all_images)
                 /\ pc' = IF tomb_urls' # <<>> THEN "tomb" ELSE PcAt(cursor')
    /\ UNCHANGED <<text_type, all_images, total_downloaded, reported, results,
                   attempts, arg, ret>>

\* lines 258-263: one tomb page fetched, classified and merged; an exception
\* of the request or of the classifier ends the run
FetchTomb ==
    /\ pc = "tomb"
    /\ \E response \in TombResponses :
       \E r \in {extract_funerary_text_images(text_type, response, tomb_urls[ti])} :
         /\ events' = Append(events, Event("tomb", OutcomeOf(response)))
         /\ IF r.raised
            THEN /\ pc' = "crashed"
                 /\ UNCHANGED <<all_images, results>>
            ELSE /\ all_images' = Merge(all_images, r.by_section)
                 /\ results' = Append(results, [tomb |-> ti, page |-> PageIndex(response),
                                                out |-> r.by_section])
                 /\ pc' = "sleep_tomb"
    /\ UNCHANGED <<text_type, tomb_urls, ti, cursor, total_downloaded, reported,
                   listing, attempts, arg, ret>>

\* line 266, then the next tomb or lines 268-271
SleepTomb ==
    /\ pc = "sleep_tomb"
    /\ events' = events \o time_sleep("sleep_1", LastEvent.outcome)
    /\ IF ti < Len(tomb_urls)
       THEN /\ ti' = ti + 1
            /\ pc' = "tomb"
            /\ UNCHANGED cursor
       ELSE /\ cursor' = FirstCursor(all_images)
            /\ pc' = PcAt(cursor')
            /\ UNCHANGED ti
    /\ UNCHANGED <<text_type, tomb_urls, all_images, total_downloaded, reported,
                   listing, results, attempts, arg, ret>>

\* lines 278-302: the file name of one image and its download
DownloadImage ==
    /\ pc = "image"
    /\ \E img \in {all_images[cursor.sec][cursor.idx]} :
       \E path \in {FilePath(text_type, cursor.sec,
                       FileName(img.url, img.caption, img.tomb_name, cursor.idx))} :
       \E outcome \in DownloadOutcomes :
         /\ total_downloaded' = IF download_image(outcome)
                                THEN total_downloaded + 1
                                ELSE total_downloaded
         /\ attempts' = Append(attempts,
                [section |-> cursor.sec, url |-> img.url, outcome |-> outcome,
                 path |-> path])
         /\ events' = Append(events, Event("image", outcome))
    /\ pc' = "sleep_image"
    /\ UNCHANGED <<text_type, tomb_urls, ti, all_images, cursor, reported, listing,
                   results, arg, ret>>

\* line 304, then the next image
SleepImage ==
    /\ pc = "sleep_image"
    /\ events' = events \o time_sleep("sleep_05", LastEvent.outcome)
    /\ cursor' = NextCursor(all_images, cursor)
    /\ pc' = PcAt(cursor')
    /\ UNCHANGED <<text_type, tomb_urls, ti, all_images, total_downloaded, reported,
                   listing, results, attempts, arg, ret>>

\* lines 306-307
Summary ==
    /\ pc = "summary"
    /\ reported' = total_downloaded
    /\ pc' = "done"
    /\ UNCHANGED <<text_type, tomb_urls, ti, all_images, cursor, total_downloaded,
                   listing, results, attempts, events, arg, ret>>

Next ==
    \/ GetTombsList
    \/ FetchTomb
    \/ SleepTomb
    \/ DownloadImage
    \/ SleepImage
    \/ Summary

Spec == Init /\ [][Next]_vars

-----------------------------------------------------------------------------
(* sanitize_filename on its own: every short text, alone and after a text *)
(* repeated until the whole is longer than max_length                     *)

MaxHead == 2

\* the variables of the run, when one function is called on its own
NoRun ==
    /\ text_type = "amduat"
    /\ tomb_urls = <<>>
    /\ ti = 0
    /\ all_images = EmptySections("amduat")
    /\ cursor = NoCursor
    /\ total_downloaded = 0
    /\ reported = -1
    /\ listing = "none"
    /\ results = <<>>
    /\ attempts = <<>>
    /\ events = <<>>

runVars == <<text_type, tomb_urls, ti, all_images, cursor, total_downloaded,
             reported, listing, results, attempts, events>>

RECURSIVE Repeat(_, _)
\* unit * n
Repeat(unit, n) == IF n = 0 THEN <<>> ELSE unit \o Repeat(unit, n - 1)

\* the least number of repetitions of unit that is longer than max_length
Over(unit) == (max_length \div Len(unit)) + 1

\* one unsafe character and one kind of white space at a time
Spellings ==
    { <<"<", " ">>, <<">", "\t">>, <<":", "\n">>, <<"\"", "\r">>, <<"/", "\f">>,
      <<"\\", " ">>, <<"|", "\t">>, <<"?", "\n">>, <<"*", " ">> }

Alphabet(sp) == {"a", "_", sp[1], sp[2]}

Strs(alphabet, n) == UNION {[1..k -> alphabet] : k \in 0..n}

Units(alphabet) == {<<a>> : a \in alphabet} \cup {<<a, b>> : a, b \in alphabet}

\* unit not at all, once, or until it is longer than max_length
Times(unit, how) ==
    Repeat(unit, CASE how = "none" -> 0 [] how = "once" -> 1 [] how = "over" -> Over(unit))

SanInputs ==
    UNION {{head \o Times(unit, how) :
               head \in Strs(Alphabet(sp), MaxHead),
               unit \in Units(Alphabet(sp)),
               how \in {"none", "once", "over"}} : sp \in Spellings}

InitSan ==
    /\ NoRun
    /\ pc = "call"
    /\ arg \in SanInputs
    /\ ret = <<>>

CallSanitize ==
    /\ pc = "call"
    /\ pc' = "return"
    /\ ret' = sanitize_filename(arg)
    /\ UNCHANGED <<runVars, arg>>

NextSan == CallSanitize

SpecSan == InitSan /\ [][NextSan]_vars

-----------------------------------------------------------------------------
(* The classifier on its own, on pages of one element: every form of the  *)
(* source attributes, and contexts made of clauses that name sections     *)

MaxClauses == 2

Clauses ==
    << "Imydwat, fourth hour", "Amduat the hour 7, Amduat", "amduat, FIFTH hour",
       "second hour of the Amduat", "hour 3, imydwat", "hour 13 amduat",
       "Book of Caverns, sixth division", "part 2 caverns" >>

RECURSIVE Phrase(_)
\* the clauses with these numbers, one after the other
Phrase(ks) ==
    IF ks = <<>> THEN ""
    ELSE IF Len(ks) = 1 THEN Clauses[ks[1]]
    ELSE Clauses[ks[1]] \o " " \o Phrase(Tail(ks))

Phrases == {Phrase(ks) : ks \in UNION {[1..n -> DOMAIN Clauses] : n \in 0..MaxClauses}}

\* a denylist word in lower case, in upper case, capitalised, and with one
\* letter in upper case
CaseVariants(word) ==
    {word, Tuple([i \in 1..Len(word) |-> UpperCh(word[i])])}
        \cup {Tuple([i \in 1..Len(word) |-> IF i = k THEN UpperCh(word[i]) ELSE word[i]]) :
                 k \in 1..Len(word)}

DeniedSources ==
    {pre \o v \o post :
        pre \in {Empty, Chars("/img/nav-")},
        v \in UNION {CaseVariants(w) : w \in DenyList},
        post \in {Empty, Chars("s.png")}}

CleanSources ==
    {Chars("/sites/default/files/kv-9/fig1.jpg"),
     Chars("/styles/thumb/public/kv-9/fig1.jpg"),
     Chars("fig.jpg"),
     Chars("https://cdn.example.org/a.jpg")}

\* the forms an element with the source s takes: an img with src, an img with
\* data-src, another element with data-src, and an img with both, where src
\* is the first of them
Forms(s, alt, anc) ==
    { [isTag |-> TRUE, tag |-> tag, src |-> src, data_src |-> data_src,
       alt |-> Chars(alt), title |-> Chars("figure"),
       anc |-> Tuple([k \in 1..Len(anc) |-> Texts(anc[k])])] :
        <<tag, src, data_src>> \in
            {<<"img", s, Empty>>, <<"img", Empty, s>>, <<"div", Empty, s>>,
             <<"img", s, Chars("/lazy/full.jpg")>>} }

FewAlts == {"", "Imydwat, fourth hour; Caverns, first part"}
FewAncs == {<< <<>> >>, << <<" Amduat, third hour. Caverns, second part">>, <<>> >>}

\* ancestors where the parent has no visible text and a higher one has
WrappedAncs ==
    { Nested,
      << <<>>, <<"Caverns, third part. Amduat, fifth hour of the night">> >>,
      << <<"\n  ">>, <<>>, <<"The sixth hour of the Amduat and the first part of the Caverns">> >>,
      << <<" ">>, <<"Burial chamber">> >> }

Titles == {"", "Plate 4"}

\* an img in wrappers without text of their own
Wrapped(alt, title, anc) ==
    [Tag("img", "/sites/default/files/kv-9/fig1.jpg", "", alt, anc)
        EXCEPT !.title = Chars(title)]

ClassifyInputs ==
    {[tt |-> tt, elem |-> e] :
        tt \in TextTypes,
        e \in UNION {Forms(s, alt, anc) :
                        s \in DeniedSources \cup CleanSources,
                        alt \in FewAlts, anc \in FewAncs}}
    \cup
    {[tt |-> tt, elem |-> e] :
        tt \in TextTypes,
        e \in UNION {{Tag("img", "/sites/default/files/kv-9/fig1.jpg", "", alt, Bare),
                      Tag("img", "/sites/default/files/kv-9/fig1.jpg", "", "", <<<<alt>>>>)} :
                        alt \in Phrases}}
    \cup
    {[tt |-> tt, elem |-> Wrapped(alt, title, anc)] :
        tt \in TextTypes, alt \in FewAlts, title \in Titles, anc \in WrappedAncs}

OnePage(elem) == [title |-> Chars("KV 9"), h1 |-> Empty, elems |-> <<elem>>]
OneUrl == Chars("https://thebanmappingproject.com/tombs/kv-9")

InitClassify ==
    /\ NoRun
    /\ pc = "call"
    /\ arg \in ClassifyInputs
    /\ ret = <<>>

CallClassify ==
    /\ pc = "call"
    /\ pc' = "return"
    /\ ret' = ClassifyPage(arg.tt, OnePage(arg.elem), OneUrl)
    /\ UNCHANGED <<runVars, arg>>

NextClassify == CallClassify

SpecClassify == InitClassify /\ [][NextClassify]_vars

-----------------------------------------------------------------------------
(* Properties of the run (specification Spec) *)

\* the events of this kind, by position
EventsOf(kind) == {i \in 1..Len(events) : events[i].kind = kind}

\* C1: a tomb page fetch that fails, with a non-success status or with a
\* transport error raised by the fetch, never ends the run: the tomb
\* contributes no image, and a run that ends has fetched every tomb of the list
C1_TombFailureSkipped ==
    /\ \A i \in EventsOf("tomb") :
           events[i].outcome \in {"status", "transport"}
               => ~(pc = "crashed" /\ i = Len(events))
    /\ \A i \in 1..Len(results) :
           results[i].page = 0 => results[i].out = EmptySections(text_type)
    /\ pc = "done" => Cardinality(EventsOf("tomb")) = Len(tomb_urls)

\* the run ended at the fetch of a tomb page that raised a transport error,
\* with tombs of the list left
C1_TransportErrorEndsRun ==
    /\ pc = "crashed"
    /\ LastEvent.kind = "tomb"
    /\ LastEvent.outcome = "transport"
    /\ ti < Len(tomb_urls)
    /\ reported = -1

RECURSIVE InOrder(_, _)
\* the images of the bucket in the order of the download phase, from
\* section n on
InOrder(all, n) ==
    IF \A m \in DOMAIN all : m < n THEN <<>>
    ELSE (IF n \in DOMAIN all
          THEN Tuple([i \in 1..Len(all[n]) |-> <<n, all[n][i].url>>])
          ELSE <<>>) \o InOrder(all, n + 1)

Succeeded == {i \in 1..Len(attempts) : attempts[i].outcome = "ok"}

\* C2: a failed download (non-200 status, transport error or write error)
\* skips only its image: the attempts follow the bucket in order, a finished
\* run has attempted every image of the bucket, and the total counted and
\* reported is the number of attempts that succeeded
C2_FailedDownloadSkipsOneImage ==
    Bind(InOrder(all_images, 1), LAMBDA order :
        /\ total_downloaded = Cardinality(Succeeded)
        /\ Len(attempts) <= Len(order)
        /\ \A i \in 1..Len(attempts) :
               <<attempts[i].section, attempts[i].url>> = order[i]
        /\ pc = "done" =>
               /\ Len(attempts) = Len(order)
               /\ reported = Cardinality(Succeeded))

\* a finished run where a download failed with a status, a later one of the
\* next section with a transport error, and the one after it succeeded
C2_Witness ==
    /\ pc = "done"
    /\ \E i, j, k \in 1..Len(attempts) :
           /\ i < j /\ j < k
           /\ attempts[i].outcome = "status"
           /\ attempts[j].outcome \in {"transport", "write"}
           /\ attempts[k].outcome = "ok"
           /\ attempts[i].section < attempts[j].section
           /\ attempts[j].section = attempts[k].section
    /\ reported = 1

\* C3: when the listing request returns a non-200 status, get_tombs_list
\* returns the empty list, no tomb page is fetched, no download is attempted,
\* and the run goes to its summary and reports 0
C3_ListingStatusEmptyRun ==
    listing = "status" =>
        /\ tomb_urls = <<>>
        /\ EventsOf("tomb") = {}
        /\ EventsOf("image") = {}
        /\ attempts = <<>>
        /\ pc \in {"summary", "done"}
        /\ pc = "done" => reported = 0

\* a run that finished after a listing with a non-200 status
C3_Witness ==
    /\ listing = "status"
    /\ pc = "done"
    /\ reported = 0
    /\ Len(events) = 1

RECURSIVE ClassifiedInto(_, _)
\* what the pages fetched so far, from the n-th on, gave for section s
ClassifiedInto(s, n) ==
    IF n > Len(results) THEN <<>>
    ELSE results[n].out[s] \o ClassifiedInto(s, n + 1)

\* C4: the bucket of each section holds one entry per URL, for every URL
\* classified into the section, and the entry is the first one classified
\* with that URL, in the order of the tomb list
C4_FirstSeenWins ==
    \A s \in DOMAIN all_images :
        LET seen == ClassifiedInto(s, 1)
            bucket == all_images[s]
        IN  /\ \A i, j \in 1..Len(bucket) : bucket[i].url = bucket[j].url => i = j
            /\ \A k \in 1..Len(seen) : \E i \in 1..Len(bucket) : bucket[i].url = seen[k].url
            /\ \A i \in 1..Len(bucket) :
                   /\ \E k \in 1..Len(seen) : seen[k].url = bucket[i].url
                   /\ bucket[i] = seen[SetMin({k \in 1..Len(seen) : seen[k].url = bucket[i].url})]

\* two tombs gave the same URL for the same section, with different captions
\* and tomb names, and both were merged
C4_Witness ==
    /\ Len(results) = 2
    /\ \E s \in DOMAIN all_images :
       \E a \in 1..Len(results[1].out[s]) : \E b \in 1..Len(results[2].out[s]) :
           /\ results[1].out[s][a].url = results[2].out[s][b].url
           /\ results[1].out[s][a].caption # results[2].out[s][b].caption
           /\ results[1].out[s][a].tomb_name # results[2].out[s][b].tomb_name
           /\ \E i \in 1..Len(all_images[s]) : all_images[s][i] = results[1].out[s][a]

-----------------------------------------------------------------------------
(* Properties of the classifier (specification SpecClassify) *)

\* the source string of an element: src, else data-src
SourceOf(elem) == IF elem.src # Empty THEN elem.src ELSE elem.data_src

\* the word occurs in s, in any letter case
ContainsAnyCase(s, word) ==
    \E p \in 0..(Len(s) - Len(word)) : \A j \in 1..Len(word) : LowerCh(s[p + j]) = word[j]

DeniedAnyCase(s) ==
    \E word \in {Chars("logo"), Chars("icon"), Chars("compass"), Chars("hieroglyph")} :
        ContainsAnyCase(s, word)

\* the sections the classifier emitted an image into
Emitted == {s \in DOMAIN ret.by_section : ret.by_section[s] # <<>>}

\* C5: an image whose source string (src, else data-src) contains "logo",
\* "icon", "compass" or "hieroglyph" in any letter case is emitted into no
\* section, whatever its alt text and the text of its ancestors match
C5_DenylistWins ==
    (pc = "return" /\ DeniedAnyCase(SourceOf(arg.elem))) => Emitted = {}

\* an img whose src has a denylist word that is not in lower case and whose
\* context names a section was classified, and nothing was emitted
C5_Witness ==
    /\ pc = "return"
    /\ arg.elem.tag = "img"
    /\ arg.elem.src # Empty
    /\ arg.elem.data_src = Empty
    /\ DeniedAnyCase(arg.elem.src)
    /\ ~(\E word \in DenyList : Contains(arg.elem.src, word))
    /\ section_found(arg.tt, img_context(arg.elem)) # 0
    /\ ~ret.raised
    /\ Emitted = {}

\* the img element with the lazy source of the element as its src
AsImg(elem) == [elem EXCEPT !.tag = "img", !.src = elem.data_src, !.data_src = Empty]

\* C6: an element with a lazy-load source (data-src) and no src is processed
\* like the img element with that source: processing it never raises, and the
\* per-section result is the one of the img element
C6_LazyLikeImg ==
    (pc = "return" /\ arg.elem.src = Empty /\ arg.elem.data_src # Empty) =>
        /\ ~ret.raised
        /\ ret.by_section =
               ClassifyPage(arg.tt, OnePage(AsImg(arg.elem)), OneUrl).by_section

\* the classifier raised on an element other than img whose lazy source is
\* not on the denylist, where the img element with that source is emitted
C6_LazyRaises ==
    /\ pc = "return"
    /\ arg.elem.tag = "div"
    /\ arg.elem.src = Empty
    /\ arg.elem.data_src # Empty
    /\ ret.raised
    /\ \E s \in Sections(arg.tt) :
           ClassifyPage(arg.tt, OnePage(AsImg(arg.elem)), OneUrl).by_section[s] # <<>>

\* the captured values of each pattern in the context of the element
Captured ==
    Bind(img_context(arg.elem), LAMBDA ctx :
        Tuple([p \in 1..Len(patterns(arg.tt)) |-> findall(patterns(arg.tt)[p], ctx)]))

\* the captured values of pattern p that are keys of the mapping, by position
KeysOf(cap, p) == {j \in 1..Len(cap[p]) : InMapping(arg.tt, Lower(cap[p][j]))}

\* the patterns with a captured value that is a key of the mapping
Resolving(cap) == {p \in 1..Len(cap) : KeysOf(cap, p) # {}}

\* the section pattern p resolves to: the one of its first captured key
ResolvedBy(cap, p) == MappingOf(arg.tt, Lower(cap[p][SetMin(KeysOf(cap, p))]))

\* an img element with a src that passes the denylist
PlainImg ==
    /\ arg.elem.tag = "img"
    /\ arg.elem.src # Empty
    /\ arg.elem.data_src = Empty
    /\ ~DeniedAnyCase(arg.elem.src)

\* C7: the section of an image is the one resolved by the earliest pattern, in
\* configured order, with a captured value that is a key of the mapping, by
\* the first such value of that pattern; with no such pattern the image is
\* emitted into no section
C7_EarliestPatternWins ==
    (pc = "return" /\ PlainImg) =>
        Bind(Captured, LAMBDA cap :
            /\ ~ret.raised
            /\ IF Resolving(cap) = {} THEN Emitted = {}
               ELSE Emitted = {ResolvedBy(cap, SetMin(Resolving(cap)))})

\* two patterns resolve to different sections, the first captured value of
\* the earlier one is no key of the mapping, and the image is in the section
\* of the earlier one
C7_Witness ==
    /\ pc = "return"
    /\ PlainImg
    /\ Bind(Captured, LAMBDA cap :
          \E p, q \in Resolving(cap) :
             /\ p < q
             /\ p = SetMin(Resolving(cap))
             /\ 1 \notin KeysOf(cap, p)
             /\ ResolvedBy(cap, p) # ResolvedBy(cap, q)
             /\ Emitted = {ResolvedBy(cap, p)})

-----------------------------------------------------------------------------
(* Properties of sanitize_filename (specification SpecSan) *)

Invalid == {"<", ">", ":", "\"", "/", "\\", "|", "?", "*"} \cup SpaceChars

\* C8: the result of sanitize_filename has none of the characters
\* < > : " / \ | ? * and no white space, no two underscores in a row, and at
\* most 100 characters; an input made only of those characters, white space
\* and underscores gives "unnamed"
C8_Sanitized ==
    pc = "return" =>
        /\ \A i \in 1..Len(ret) : ret[i] \notin Invalid
        /\ \A i \in 1..(Len(ret) - 1) : ~(ret[i] = "_" /\ ret[i + 1] = "_")
        /\ Len(ret) <= 100
        /\ (\A i \in 1..Len(arg) : arg[i] \in Invalid \cup {"_"}) => ret = Chars("unnamed")

\* an input of more than 100 characters, with unsafe characters, white space
\* and underscores next to each other, was cut to 100 characters
C8_Witness ==
    /\ pc = "return"
    /\ Len(arg) > 100
    /\ Len(ret) = 100
    /\ \E i \in 1..(Len(arg) - 2) :
           /\ arg[i] \in UnsafeChars
           /\ arg[i + 1] = "_"
           /\ arg[i + 2] \in SpaceChars
    /\ \E i \in 1..Len(ret) : ret[i] = "_"

-----------------------------------------------------------------------------
(* Properties of the run, continued (specification Spec) *)

\* the page of the n-th result with the k-th of its elements only
OnlyElem(n, k) ==
    [Pages[results[n].page] EXCEPT !.elems = <<Pages[results[n].page].elems[k]>>]

\* what each element of the page of the n-th result gives when it is
\* classified alone
Alone(n) ==
    IF results[n].page = 0 THEN <<>>
    ELSE Tuple([k \in 1..Len(Pages[results[n].page].elems) |->
                  ClassifyPage(text_type, OnlyElem(n, k),
                               tomb_urls[results[n].tomb]).by_section])

RECURSIVE Detections(_, _, _)
\* the detections for section s, in the order of the page, from element k on
Detections(alone, s, k) ==
    IF k > Len(alone) THEN <<>> ELSE alone[k][s] \o Detections(alone, s, k + 1)

\* the entries of seq that no entry with the same URL precedes
FirstOfEach(seq) ==
    Bind(Positions(seq, LAMBDA i : \A j \in 1..(i - 1) : seq[j].url # seq[i].url),
         LAMBDA idx : Tuple([k \in 1..Len(idx) |-> seq[idx[k]]]))

\* the result recorded last is, in each section, the first detection of each
\* URL on its page
LastResultFirstDetections ==
    Bind(Alone(Len(results)), LAMBDA alone :
      \A s \in Sections(text_type) :
          results[Len(results)].out[s] = FirstOfEach(Detections(alone, s, 1)))

\* C9: the result of the classifier for a page has, in each section, one entry
\* per URL, the first detection of it on the page; merging the result of a
\* page that was merged already adds no entry and changes none (stated where
\* a result was just recorded and merged: nothing else changes the results
\* or the bucket)
C9_ClassifierIdempotent ==
    pc = "sleep_tomb" =>
        /\ LastResultFirstDetections
        /\ \A n \in 1..Len(results) :
               /\ \A s \in Sections(text_type) : \A i, j \in 1..Len(results[n].out[s]) :
                      results[n].out[s][i].url = results[n].out[s][j].url => i = j
               /\ Merge(all_images, results[n].out) = all_images
               /\ Merge(Merge(EmptySections(text_type), results[n].out), results[n].out)
                      = Merge(EmptySections(text_type), results[n].out)

\* a page was just merged on which a URL was detected twice for one section,
\* with different captions
C9_Witness ==
    /\ pc = "sleep_tomb"
    /\ \E s \in Sections(text_type) :
        LET found == Detections(Alone(Len(results)), s, 1)
        IN  /\ \E i, j \in 1..Len(found) :
                   /\ i < j
                   /\ found[i].url = found[j].url
                   /\ found[i].caption # found[j].caption
            /\ Len(results[Len(results)].out[s]) < Len(found)
    /\ Merge(all_images, results[Len(results)].out) = all_images

\* the delay that separates two requests of this kind
DelayOf(kind) == IF kind = "tomb" THEN "sleep_1" ELSE "sleep_05"

\* C10: the requests of a run are made one after the other, and between two
\* fetches of tomb pages there is a delay step, and between two download
\* attempts a delay step of the shorter kind, also after a fetch or a
\* download that failed: whatever follows a fetch or a download attempt
\* starts with the delay step of its kind
C10_DelayBetweenRequests ==
    \A i \in 1..(Len(events) - 1) :
        events[i].kind \in {"tomb", "image"}
            => events[i + 1].kind = DelayOf(events[i].kind)

\* a run with a failed fetch followed by a delay and a fetch, and a failed
\* download followed by a delay and a download
C10_Witness ==
    /\ \E i \in 1..(Len(events) - 2) :
           /\ events[i] = Event("tomb", "status")
           /\ events[i + 1].kind = "sleep_1"
           /\ events[i + 2].kind = "tomb"
    /\ \E i \in 1..(Len(events) - 2) :
           /\ events[i].kind = "image"
           /\ events[i].outcome # "ok"
           /\ events[i + 1].kind = "sleep_05"
           /\ events[i + 2].kind = "image"

-----------------------------------------------------------------------------
(* Properties of the caption (specification SpecClassify) *)

\* the visible text of the immediate parent of the element
ParentText(elem) == IF Len(elem.anc) >= 1 THEN get_text_strip(elem.anc[1]) ELSE Empty

\* the caption derived from the text of the immediate parent only: its first
\* sentence or word window with a keyword, else alt, else title, else nothing
CaptionFromParent(tt, elem) ==
    Bind(matching_text(tt, ParentText(elem)), LAMBDA m :
        IF m # Empty THEN m ELSE IF elem.alt # Empty THEN elem.alt ELSE elem.title)

\* C11: the caption of a classified image is derived from the visible text of
\* its immediate parent only; when the parent has no visible text, nothing of
\* a higher ancestor is used and the caption is the alt text, else the title,
\* else the empty string
C11_CaptionFromParentOnly ==
    (pc = "return" /\ PlainImg) =>
        \A s \in Emitted :
            ret.by_section[s][1].caption = CaptionFromParent(arg.tt, arg.elem)

\* an image with an alt text whose parent has no visible text was emitted
\* with a caption that is a sentence of its grandparent's text
C11_GrandparentCaption ==
    /\ pc = "return"
    /\ PlainImg
    /\ Len(arg.elem.anc) >= 2
    /\ ParentText(arg.elem) = Empty
    /\ arg.elem.alt # Empty
    /\ \E s \in Emitted :
           /\ ret.by_section[s][1].caption # arg.elem.alt
           /\ ret.by_section[s][1].caption
                  = matching_text(arg.tt, get_text_strip(arg.elem.anc[2]))

-----------------------------------------------------------------------------
(* Properties of the files written (specification Spec) *)

\* the paths the successful downloads wrote
Written == {attempts[i].path : i \in Succeeded}

\* C12: two distinct image URLs of the same section are never written to the
\* same file path, so no download overwrites the file of another, and the
\* total reported is the number of distinct files the run wrote
C12_DistinctPaths ==
    /\ \A i, j \in 1..Len(attempts) :
           (attempts[i].section = attempts[j].section /\ attempts[i].url # attempts[j].url)
               => attempts[i].path # attempts[j].path
    /\ pc = "done" => reported = Cardinality(Written)

\* a finished run that downloaded two URLs of one section to the same path
\* and reports two images where one file was written
C12_Overwritten ==
    /\ pc = "done"
    /\ \E i, j \in Succeeded :
           /\ i < j
           /\ attempts[i].section = attempts[j].section
           /\ attempts[i].url # attempts[j].url
           /\ attempts[i].path = attempts[j].path
    /\ reported = 2
    /\ Cardinality(Written) = 1

====
